---- MODULE Spec2Model ----
(***************************************************************************)
(* Model of api/latency.py: the telemetry table loaded at cold start, the  *)
(* column normaliser normalize_df and the POST handler latency_endpoint.   *)
(*                                                                         *)
(* Numbers are fixed point: a table cell or threshold Num(n) stands for    *)
(* n/Scale.  avg_latency and p95_latency are kept in thousandths (the      *)
(* three digits round(x, 3) keeps) and avg_uptime in millionths (the six   *)
(* digits round(x, 6) keeps).                                              *)
(***************************************************************************)
EXTENDS Integers, Sequences, FiniteSets, TLC

VARIABLES TELEMETRY_DF, pc, request, df, idx, out, response, memo

vars == <<TELEMETRY_DF, pc, request, df, idx, out, response, memo>>

(* ---------------- bounds of the model ---------------- *)
MaxRows == 3
MaxRegions == 2
MaxCols == 3

(* ---------------- values ---------------- *)
Scale == 100

Num(n) == [t |-> "num", s |-> "", n |-> n]
Str(x) == [t |-> "str", s |-> x, n |-> 0]
Bool(b) == [t |-> "bool", s |-> "", n |-> IF b THEN 1 ELSE 0]
Null == [t |-> "null", s |-> "", n |-> 0]
Arr == [t |-> "list", s |-> "[]", n |-> 0]

None == [null |-> TRUE, v |-> 0]
Some(x) == [null |-> FALSE, v |-> x]

(* str.lower() on the strings the model uses *)
Lower(s) ==
  CASE s = "US-East" -> "us-east"
    [] s = "Us-East" -> "us-east"
    [] s = "Region" -> "region"
    [] s = "REGION" -> "region"
    [] s = "Latency" -> "latency"
    [] s = "LATENCY_MS" -> "latency_ms"
    [] s = "Ping" -> "ping"
    [] s = "Uptime" -> "uptime"
    [] s = "UP" -> "up"
    [] OTHER -> s

(* str(x): a string is itself, a missing cell (NaN) prints as "nan" *)
ToStr(v) == IF v.t = "str" THEN v.s ELSE IF v.t = "null" THEN "nan" ELSE v.s

(* pd.to_numeric(..., errors="coerce"): numbers stay, numeric strings parse, *)
(* everything else becomes NaN (None here)                                  *)
to_numeric(v) ==
  IF v.t = "num" THEN Some(v.n)
  ELSE IF v.t = "str" /\ v.s = "300" THEN Some(300 * Scale)
  ELSE None

(* float(threshold) for a value that passed isinstance(threshold, (int, float)) *)
FloatOf(v) == IF v.t = "bool" THEN v.n * Scale ELSE v.n

(* round(x, k) on the exact quotient n/d, d > 0, half to even.  Python rounds *)
(* the binary float; the two differ only at ties, and the sums of the cell   *)
(* values used here over fewer than eight rows never fall on one             *)
RoundDiv(n, d) ==
  LET q == n \div d
      r == n % d
  IN IF 2 * r > d \/ (2 * r = d /\ q % 2 = 1) THEN q + 1 ELSE q

RECURSIVE SumSeq(_)
SumSeq(s) == IF s = <<>> THEN 0 ELSE Head(s) + SumSeq(Tail(s))

(* ---------------- the table ---------------- *)
DataFrame(columns, rows) == [columns |-> columns, rows |-> rows]

EmptyNoColumns(d) == Len(d.columns) = 0

(* DataFrame.empty: some axis has length 0 *)
Empty(d) == Len(d.columns) = 0 \/ Len(d.rows) = 0

HasColumn(d, name) == \E i \in 1..Len(d.columns) : d.columns[i] = name

CountColumn(d, name) == Cardinality({i \in 1..Len(d.columns) : d.columns[i] = name})

ColumnIndex(d, name) == CHOOSE i \in 1..Len(d.columns) : d.columns[i] = name

(* cols = {c.lower(): c for c in df.columns}: a later column overwrites an *)
(* earlier one with the same lower-cased name                              *)
InCols(columns, key) == \E i \in 1..Len(columns) : Lower(columns[i]) = key

Cols(columns, key) ==
  LET last == CHOOSE i \in 1..Len(columns) :
                /\ Lower(columns[i]) = key
                /\ \A j \in 1..Len(columns) : Lower(columns[j]) = key => j <= i
  IN columns[last]

LatencySourceFirstAlias(columns) ==
  IF InCols(columns, "ping") THEN {<<Cols(columns, "ping"), "latency_ms">>}
  ELSE IF InCols(columns, "latency") THEN {<<Cols(columns, "latency"), "latency_ms">>}
  ELSE IF InCols(columns, "latency_ms") THEN {<<Cols(columns, "latency_ms"), "latency_ms">>}
  ELSE {}

LatencySource(columns) ==
  IF InCols(columns, "latency_ms") THEN {<<Cols(columns, "latency_ms"), "latency_ms">>}
  ELSE IF InCols(columns, "latency") THEN {<<Cols(columns, "latency"), "latency_ms">>}
  ELSE IF InCols(columns, "ping") THEN {<<Cols(columns, "ping"), "latency_ms">>}
  ELSE {}

(* the rename map of normalize_df, as a set of <<old name, new name>> *)
RenameMap(columns) ==
  (IF InCols(columns, "region") THEN {<<Cols(columns, "region"), "region">>} ELSE {})
  \cup LatencySource(columns)
  \cup (IF InCols(columns, "uptime") THEN {<<Cols(columns, "uptime"), "uptime">>}
        ELSE IF InCols(columns, "up") THEN {<<Cols(columns, "up"), "uptime">>}
        ELSE {})

(* df.rename(columns=rename): a new frame, every column named by a key renamed *)
normalize_df(d) ==
  LET rename == RenameMap(d.columns)
      NewName(c) == IF \E p \in rename : p[1] = c
                    THEN (CHOOSE p \in rename : p[1] = c)[2]
                    ELSE c
  IN DataFrame([i \in 1..Len(d.columns) |-> NewName(d.columns[i])], d.rows)

(* ---------------- per-region aggregation ---------------- *)
Cell(d, row, name) == row[ColumnIndex(d, name)]

MatchesSubstring(d, row, region) ==
  \/ (Lower(ToStr(region)) = "us" /\ Lower(ToStr(Cell(d, row, "region"))) = "us-east")
  \/ Lower(ToStr(Cell(d, row, "region"))) = Lower(ToStr(region))

(* df["region"].astype(str).str.lower() == str(region).lower() *)
Matches(d, row, region) ==
  Lower(ToStr(Cell(d, row, "region"))) = Lower(ToStr(region))

Sub(d, region) == SelectSeq(d.rows, LAMBDA row : Matches(d, row, region))

(* pd.to_numeric(sub[name], errors="coerce").dropna() *)
NumericColumn(d, rows, name) ==
  LET coerced == [i \in 1..Len(rows) |-> to_numeric(Cell(d, rows[i], name))]
      kept == SelectSeq(coerced, LAMBDA x : ~x.null)
  IN [i \in 1..Len(kept) |-> kept[i].v]

ExceedsOrEquals(x, threshold) == x >= FloatOf(threshold)

(* lat > float(threshold) *)
Exceeds(x, threshold) == x > FloatOf(threshold)

Breaches(lat, threshold) == Len(SelectSeq(lat, LAMBDA x : Exceeds(x, threshold)))

(* round(float(lat.mean()), 3), in thousandths *)
Mean3(lat) == RoundDiv((1000 \div Scale) * SumSeq(lat), Len(lat))

(* round(float(np.percentile(lat, 95)), 3), in thousandths: linear *)
(* interpolation at rank 0.95 * (n - 1) of the sorted sample         *)
Percentile95(lat) ==
  LET sorted == SortSeq(lat, LAMBDA a, b : a < b)
      n == Len(sorted)
      pos == 95 * (n - 1)
      k == pos \div 100
      f == pos % 100
      lo == sorted[k + 1]
      hi == sorted[IF k + 2 <= n THEN k + 2 ELSE n]
  IN RoundDiv((1000 \div Scale) * (100 * lo + f * (hi - lo)), 100)

RescaleNever(up) == FALSE

(* (up > 1).any() *)
Rescale(up) == \E i \in 1..Len(up) : up[i] > 1 * Scale

RescaledPerValue(up) ==
  [i \in 1..Len(up) |-> IF up[i] > 1 * Scale THEN (10000 \div Scale) * up[i]
                        ELSE (1000000 \div Scale) * up[i]]

(* up = up / 100.0 when some sample exceeds 1, else up as it is; in millionths *)
Rescaled(up) ==
  IF Rescale(up)
  THEN [i \in 1..Len(up) |-> (10000 \div Scale) * up[i]]
  ELSE [i \in 1..Len(up) |-> (1000000 \div Scale) * up[i]]

(* round(float(up.mean()), 6), in millionths *)
MeanUptime(up) == RoundDiv(SumSeq(Rescaled(up)), Len(up))

NoData == [avg_latency |-> None, p95_latency |-> None, avg_uptime |-> None, breaches |-> 0]

(* the record built for a region with matching rows *)
Metrics(d, sub, threshold) ==
  LET lat == NumericColumn(d, sub, "latency_ms")
      up == IF HasColumn(d, "uptime") THEN NumericColumn(d, sub, "uptime") ELSE <<>>
  IN [avg_latency |-> IF lat = <<>> THEN None ELSE Some(Mean3(lat)),
      p95_latency |-> IF lat = <<>> THEN None ELSE Some(Percentile95(lat)),
      avg_uptime |-> IF up = <<>> THEN None ELSE Some(MeanUptime(up)),
      breaches |-> IF lat = <<>> THEN 0 ELSE Breaches(lat, threshold)]

DictAppend(d, key, val) == Append(d, [key |-> key, val |-> val])

(* out[key] = val on an insertion-ordered dict: an existing key keeps its *)
(* position and takes the new value, a new key goes to the end           *)
DictSet(d, key, val) ==
  IF \E i \in 1..Len(d) : d[i].key = key
  THEN [i \in 1..Len(d) |-> IF d[i].key = key THEN [key |-> key, val |-> val] ELSE d[i]]
  ELSE Append(d, [key |-> key, val |-> val])

Hashable(v) == v.t # "list"

(* ---------------- responses ---------------- *)
NoResponse == [status |-> 0, detail |-> "", body |-> <<>>]
HTTPException(status, detail) == [status |-> status, detail |-> detail, body |-> <<>>]
Unhandled == [status |-> 500, detail |-> "Internal Server Error", body |-> <<>>]
Ok(body) == [status |-> 200, detail |-> "", body |-> body]

NoFrame == DataFrame(<<>>, <<>>)
NoMemo == [set |-> FALSE, later |-> FALSE, request |-> [kind |-> "unparsable", regions |-> [t |-> "null", items |-> <<>>], threshold_ms |-> Null], response |-> NoResponse]

(* ---------------- inputs ---------------- *)
SeqsUpTo(S, n) == UNION {[1..k -> S] : k \in 0..n}

Unparsable == [kind |-> "unparsable", regions |-> [t |-> "null", items |-> <<>>], threshold_ms |-> Null]
NotAnObject == [kind |-> "array", regions |-> [t |-> "null", items |-> <<>>], threshold_ms |-> Null]
Object(r, th) == [kind |-> "object", regions |-> r, threshold_ms |-> th]
List(items) == [t |-> "list", items |-> items]
NotAList(t) == [t |-> t, items |-> <<>>]

RegionLists(E) == {List(items) : items \in SeqsUpTo(E, MaxRegions)}

Bodies ==
  {Unparsable, NotAnObject}
  \cup {Object(r, th) :
          r \in RegionLists({Str("US-East"), Str("us-east"), Str("us"), Arr})
                \cup {NotAList("str"), NotAList("null")},
          th \in {Num(150 * Scale), Bool(TRUE), Str("180"), Null}}

AggBodies ==
  {Object(r, th) : r \in RegionLists({Str("US-East"), Str("us")}),
                   th \in {Num(100 * Scale), Num(150 * Scale)}}

NormBodies == {Object(List(<<Str("us-east")>>), Num(150 * Scale)), Unparsable}

RepeatBodies ==
  {Unparsable, NotAnObject, Object(NotAList("str"), Num(150 * Scale))}
  \cup {Object(r, Num(150 * Scale)) : r \in RegionLists({Str("US-East"), Str("us")})}

ColNames == {"region", "Region", "latency_ms", "LATENCY_MS", "latency", "ping",
             "uptime", "up", "UP", "host"}

Distinct(s) == \A i, j \in 1..Len(s) : i # j => s[i] # s[j]

Layouts == {l \in SeqsUpTo(ColNames, MaxCols) : Distinct(l)}

(* the tables with the given columns and at most n rows drawn from Rows *)
Tables(columns, Rows, n) == {DataFrame(columns, rows) : rows \in SeqsUpTo(Rows, n)}

(* what pd.read_json can leave in TELEMETRY_DF; DataFrame() when both reads fail *)
ShapeTables ==
  {NoFrame}
  \cup Tables(<<"region", "latency_ms">>,
              {<<Str("us-east"), Num(200 * Scale)>>, <<Str("us-east"), Str("n/a")>>}, MaxRows)
  \cup Tables(<<"Region", "ping", "up">>,
              {<<Str("us-east"), Str("n/a"), Num(99 * Scale)>>,
               <<Str("us-east"), Num(200 * Scale), Str("n/a")>>}, MaxRows)
  \cup Tables(<<"region", "uptime">>, {<<Str("us-east"), Num(99 * Scale)>>}, MaxRows)
  \cup Tables(<<"latency", "host">>, {<<Num(200 * Scale), Str("x")>>}, MaxRows)

LatencyCells == {Num(100 * Scale), Num(200 * Scale), Str("300"), Str("n/a"), Null}

UptimeCells == {Num(50), Num(100), Num(99 * Scale), Num(150 * Scale), Num(0 - 50), Str("n/a")}

AggTables ==
  Tables(<<"Region", "Latency">>,
         {<<Str("Us-East"), l>> : l \in LatencyCells} \cup {<<Str("eu"), Num(200 * Scale)>>},
         MaxRows)
  \cup Tables(<<"region", "latency_ms", "uptime">>,
         {<<Str("us-east"), Num(200 * Scale), u>> : u \in UptimeCells}
           \cup {<<Str("eu"), Num(200 * Scale), Num(99 * Scale)>>},
         MaxRows)

NormTables ==
  {DataFrame(l, <<[i \in 1..Len(l) |-> IF Lower(l[i]) = "region" THEN Str("us-east")
                                       ELSE Num(200 * Scale)]>>) : l \in Layouts}

(* ---------------- the state machine ---------------- *)
regions == request.regions
threshold == request.threshold_ms

InitWith(T) ==
  /\ TELEMETRY_DF \in T
  /\ pc = "idle"
  /\ request = Unparsable
  /\ df = NoFrame
  /\ idx = 0
  /\ out = <<>>
  /\ response = NoResponse
  /\ memo = NoMemo

Init == InitWith(ShapeTables)

Finish(r) ==
  /\ response' = r
  /\ pc' = "done"

(* payload = await request.json(), lines 55-58 *)
Receive(B) ==
  /\ pc \in {"idle", "done"}
  /\ \E body \in B :
       /\ request' = body
       /\ IF body.kind = "unparsable"
          THEN Finish(HTTPException(400, "Invalid JSON body"))
          ELSE pc' = "payload" /\ response' = NoResponse
  /\ df' = NoFrame
  /\ idx' = 0
  /\ out' = <<>>
  /\ memo' = IF memo.set THEN [memo EXCEPT !.later = TRUE] ELSE memo
  /\ UNCHANGED TELEMETRY_DF

ShapeOkStrict(r, th) == r.t = "list" /\ th.t = "num"

(* isinstance(regions, list) and isinstance(threshold, (int, float)); bool is an int *)
ShapeOk(r, th) == r.t = "list" /\ th.t \in {"num", "bool"}

(* payload.get(...) and the isinstance check, lines 60-67 *)
ValidateShape ==
  /\ pc = "payload"
  /\ IF request.kind # "object"
     THEN Finish(Unhandled)
     ELSE IF ~ShapeOk(regions, threshold)
     THEN Finish(HTTPException(400, "Body must be regions, threshold_ms"))
     ELSE pc' = "validated" /\ UNCHANGED response
  /\ UNCHANGED <<TELEMETRY_DF, request, df, idx, out, memo>>

(* if TELEMETRY_DF.empty, lines 69-70 *)
CheckTelemetry ==
  /\ pc = "validated"
  /\ IF Empty(TELEMETRY_DF)
     THEN Finish(HTTPException(500, "Telemetry data not found on server"))
     ELSE pc' = "loaded" /\ UNCHANGED response
  /\ UNCHANGED <<TELEMETRY_DF, request, df, idx, out, memo>>

SharedAfterInPlace(shared, normalized) == normalized

(* TELEMETRY_DF.copy() is what gets renamed: the module-level frame stays as loaded *)
SharedAfter(shared, normalized) == shared

(* df = normalize_df(TELEMETRY_DF.copy()) and the required-column check, lines 72-79 *)
Normalize ==
  /\ pc = "loaded"
  /\ df' = normalize_df(TELEMETRY_DF)
  /\ TELEMETRY_DF' = SharedAfter(TELEMETRY_DF, df')
  /\ IF ~HasColumn(df', "region") \/ ~HasColumn(df', "latency_ms")
     THEN Finish(HTTPException(500, "Telemetry data must include region and latency"))
          /\ UNCHANGED idx
     ELSE pc' = "loop" /\ idx' = 1 /\ UNCHANGED response
  /\ UNCHANGED <<request, out, memo>>

RaisesOnNoMatch(d, region) ==
  \/ CountColumn(d, "region") > 1
  \/ ~Hashable(region)
  \/ Sub(d, region) = <<>>
  \/ /\ Sub(d, region) # <<>>
     /\ (CountColumn(d, "latency_ms") > 1 \/ CountColumn(d, "uptime") > 1)

(* what one pass of the loop body raises, if anything: a frame with two      *)
(* columns of the same name gives a DataFrame where a Series is expected,    *)
(* and an unhashable region cannot be a dict key                             *)
Raises(d, region) ==
  \/ CountColumn(d, "region") > 1
  \/ ~Hashable(region)
  \/ /\ Sub(d, region) # <<>>
     /\ (CountColumn(d, "latency_ms") > 1 \/ CountColumn(d, "uptime") > 1)

(* one pass of for region in regions, lines 82-113 *)
RegionIter ==
  /\ pc = "loop"
  /\ idx <= Len(regions.items)
  /\ LET region == regions.items[idx]
     IN IF Raises(df, region)
        THEN Finish(Unhandled) /\ UNCHANGED <<idx, out>>
        ELSE /\ out' = DictSet(out, region,
                         IF Sub(df, region) = <<>> THEN NoData
                         ELSE Metrics(df, Sub(df, region), threshold))
             /\ idx' = idx + 1
             /\ UNCHANGED <<pc, response>>
  /\ UNCHANGED <<TELEMETRY_DF, request, df, memo>>

(* return out, line 115 *)
Return ==
  /\ pc = "loop"
  /\ idx > Len(regions.items)
  /\ Finish(Ok(out))
  /\ UNCHANGED <<TELEMETRY_DF, request, df, idx, out, memo>>

(* bookkeeping for comparing a later call with an earlier one *)
Remember ==
  /\ pc = "done"
  /\ ~memo.set
  /\ memo' = [set |-> TRUE, later |-> FALSE, request |-> request, response |-> response]
  /\ UNCHANGED <<TELEMETRY_DF, pc, request, df, idx, out, response>>

Steps == ValidateShape \/ CheckTelemetry \/ Normalize \/ RegionIter \/ Return

Next == Receive(Bodies) \/ Steps

Spec == Init /\ [][Next]_vars

InitAgg == InitWith(AggTables)
NextAgg == Receive(AggBodies) \/ Steps
SpecAgg == InitAgg /\ [][NextAgg]_vars

InitNorm == InitWith(NormTables)
NextNorm == Receive(NormBodies) \/ Steps
SpecNorm == InitNorm /\ [][NextNorm]_vars

InitRepeat == InitWith(ShapeTables)
NextRepeat == Receive(RepeatBodies) \/ Steps \/ Remember
SpecRepeat == InitRepeat /\ [][NextRepeat]_vars

(* ======================= properties ======================= *)
Done == pc = "done"
Succeeded == pc = "done" /\ response.status = 200

(* the error kinds of the interface, read off the status and detail *)
ErrorKind(r) ==
  CASE r.status = 200 -> "ok"
    [] r.status = 400 -> "InvalidRequestShape"
    [] r.status = 500 /\ r.detail = "Telemetry data not found on server" -> "DataUnavailable"
    [] r.status = 500 /\ r.detail = "Telemetry data must include region and latency" -> "SchemaMismatch"
    [] OTHER -> "InternalError"

Keys(body) == [j \in 1..Len(body) |-> body[j].key]

RECURSIVE FirstOccurrences(_)
FirstOccurrences(s) ==
  IF s = <<>> THEN <<>>
  ELSE LET init == FirstOccurrences(SubSeq(s, 1, Len(s) - 1))
           last == s[Len(s)]
       IN IF \E i \in 1..Len(init) : init[i] = last THEN init ELSE Append(init, last)

(* C1 as stated: the keys of a successful response, read in order, are the *)
(* regions list itself, duplicates included                                *)
C1_KeysAreRegionsList == Succeeded => Keys(response.body) = regions.items

(* C1 amended: the keys of a successful response are the distinct elements *)
(* of the regions list in order of first occurrence; a repeated element    *)
(* yields one entry                                                        *)
C1_KeysAreDistinctRegions ==
  Succeeded => Keys(response.body) = FirstOccurrences(regions.items)

C1_Witness ==
  /\ Succeeded
  /\ Len(regions.items) = 2
  /\ regions.items[1] = regions.items[2]
  /\ Len(response.body) = 1

ZeroRows == Len(TELEMETRY_DF.rows) = 0

(* C2 as stated: with a table of zero rows every call fails with DataUnavailable *)
C2_EmptyTableAlwaysDataUnavailable ==
  (Done /\ ZeroRows) => ErrorKind(response) = "DataUnavailable"

PassesShapeCheck(b) ==
  b.kind = "object" /\ b.regions.t = "list" /\ b.threshold_ms.t \in {"num", "bool"}

(* C2 amended: with a table of zero rows a call fails with DataUnavailable   *)
(* exactly when its request passes the request-shape check; a request that   *)
(* fails the check is rejected before the table is looked at                 *)
C2_EmptyTableDataUnavailableIffShapeOk ==
  (Done /\ ZeroRows) =>
    (ErrorKind(response) = "DataUnavailable" <=> PassesShapeCheck(request))

C2_Witness ==
  /\ Done /\ ZeroRows
  /\ Len(TELEMETRY_DF.columns) > 0
  /\ ErrorKind(response) = "DataUnavailable"
  /\ Len(regions.items) > 0

ViolatesShape(b) ==
  b.kind # "object" \/ b.regions.t # "list" \/ b.threshold_ms.t # "num"

(* C3: every call whose request violates {regions: list, threshold_ms:     *)
(* number} fails with InvalidRequestShape                                  *)
C3_ShapeViolationsAreClientErrors ==
  (Done /\ ViolatesShape(request)) => ErrorKind(response) = "InvalidRequestShape"

(* C4: a finished call is either a complete mapping or one call-level error *)
(* with no per-region result; the table-level checks come before the first *)
(* pass of the loop; and once the loop is entered, no unmatched region and  *)
(* no unparseable cell ends the call in an error                            *)
C4_AllOrNothing ==
  /\ Done =>
       \/ /\ response.status = 200
          /\ \A i \in 1..Len(regions.items) :
               \E j \in 1..Len(response.body) : response.body[j].key = regions.items[i]
       \/ /\ response.status # 200
          /\ response.body = <<>>
  /\ pc \in {"payload", "validated", "loaded"} => (idx = 0 /\ out = <<>>)
  /\ (Done /\ ErrorKind(response) \in {"DataUnavailable", "SchemaMismatch"})
       => (idx = 0 /\ out = <<>>)
  /\ (Done /\ idx >= 1 /\ \A i \in 1..Len(regions.items) : regions.items[i].t = "str")
       => response.status = 200

C4_Witness ==
  /\ Succeeded
  /\ \E j \in 1..Len(response.body) : response.body[j].val = NoData
  /\ \E j \in 1..Len(response.body) :
       /\ response.body[j].val.avg_latency.null
       /\ ~response.body[j].val.avg_uptime.null
  /\ \E i \in 1..Len(TELEMETRY_DF.rows) : \E c \in 1..Len(TELEMETRY_DF.columns) :
       TELEMETRY_DF.rows[i][c] = Str("n/a")

(* the rows of the normalized frame whose region matches key, by position *)
RowsFor(key) ==
  {i \in 1..Len(df.rows) :
     Lower(ToStr(df.rows[i][ColumnIndex(df, "region")])) = Lower(ToStr(key))}

Parsed(i, name) == to_numeric(df.rows[i][ColumnIndex(df, name)])

RECURSIVE SumOver(_, _)
SumOver(S, f) ==
  IF S = {} THEN 0
  ELSE LET x == CHOOSE y \in S : TRUE IN f[x] + SumOver(S \ {x}, f)

(* C5: breaches is the number of the region's rows whose latency parses and *)
(* is strictly greater than the threshold                                   *)
C5_BreachesStrictlyAbove ==
  Succeeded =>
    \A j \in 1..Len(response.body) :
      response.body[j].val.breaches =
        Cardinality({i \in RowsFor(response.body[j].key) :
                       /\ ~Parsed(i, "latency_ms").null
                       /\ Parsed(i, "latency_ms").v > threshold.n})

C5_Witness ==
  /\ Succeeded
  /\ \E j \in 1..Len(response.body) :
       LET R == RowsFor(response.body[j].key)
       IN /\ response.body[j].val.breaches = 1
          /\ \E i \in R : ~Parsed(i, "latency_ms").null /\ Parsed(i, "latency_ms").v = threshold.n
          /\ \E i \in R : Parsed(i, "latency_ms").null

UptimeRows(key) == {i \in RowsFor(key) : ~Parsed(i, "uptime").null}

(* C6: a region's uptime samples are divided by 100 all together when one *)
(* of them exceeds 1 and left alone otherwise, whatever other regions hold *)
C6_RescaleAllOrNothing ==
  (Succeeded /\ HasColumn(df, "uptime")) =>
    \A j \in 1..Len(response.body) :
      LET U == UptimeRows(response.body[j].key)
          percent == \E i \in U : Parsed(i, "uptime").v > Scale
          micro == [i \in U |-> IF percent THEN 100 * Parsed(i, "uptime").v
                                ELSE 10000 * Parsed(i, "uptime").v]
          avg == response.body[j].val.avg_uptime
      IN IF U = {} THEN avg.null
         ELSE ~avg.null /\ avg.v = RoundDiv(SumOver(U, micro), Cardinality(U))

C6_Witness ==
  /\ Succeeded /\ HasColumn(df, "uptime")
  /\ \E j \in 1..Len(response.body) :
       LET U == UptimeRows(response.body[j].key)
       IN /\ \E i \in U : Parsed(i, "uptime").v > Scale
          /\ \E i \in U : Parsed(i, "uptime").v <= Scale /\ Parsed(i, "uptime").v > 0
          /\ ~response.body[j].val.avg_uptime.null
  /\ \E i \in 1..Len(df.rows) : df.rows[i][ColumnIndex(df, "region")] = Str("eu")

InUnitInterval(avg) == avg.null \/ (0 <= avg.v /\ avg.v <= 1000000)

(* C7 as stated: avg_uptime is null or within [0,1] for every table content *)
C7_UptimeInUnitInterval ==
  Succeeded => \A j \in 1..Len(response.body) : InUnitInterval(response.body[j].val.avg_uptime)

(* C7 amended: avg_uptime is null or within [0,1] for a region whose *)
(* parseable uptime samples all lie in [0,100]                       *)
C7_UptimeInUnitIntervalForPercentages ==
  (Succeeded /\ HasColumn(df, "uptime")) =>
    \A j \in 1..Len(response.body) :
      (\A i \in UptimeRows(response.body[j].key) :
         0 <= Parsed(i, "uptime").v /\ Parsed(i, "uptime").v <= 100 * Scale)
      => InUnitInterval(response.body[j].val.avg_uptime)

C7_Witness ==
  /\ Succeeded /\ HasColumn(df, "uptime")
  /\ \E j \in 1..Len(response.body) :
       /\ \E i \in UptimeRows(response.body[j].key) : Parsed(i, "uptime").v = 99 * Scale
       /\ \A i \in UptimeRows(response.body[j].key) :
            0 <= Parsed(i, "uptime").v /\ Parsed(i, "uptime").v <= 100 * Scale
       /\ ~response.body[j].val.avg_uptime.null

LatencyRows(key) == {i \in RowsFor(key) : ~Parsed(i, "latency_ms").null}

(* C8: a row counts for requested region r exactly when the lower-cased    *)
(* strings are equal; with no such row the entry is the all-null record    *)
(* with breaches 0; and the keys are the regions as the caller wrote them  *)
C8_ExactCaseInsensitiveMatch ==
  Succeeded =>
    /\ \A j \in 1..Len(response.body) :
         LET key == response.body[j].key
             L == LatencyRows(key)
             milli == [i \in L |-> 10 * Parsed(i, "latency_ms").v]
             avg == response.body[j].val.avg_latency
         IN /\ \E i \in 1..Len(regions.items) : regions.items[i] = key
            /\ RowsFor(key) = {} => response.body[j].val = NoData
            /\ IF L = {} THEN avg.null
               ELSE ~avg.null /\ avg.v = RoundDiv(SumOver(L, milli), Cardinality(L))
    /\ \A i \in 1..Len(regions.items) :
         \E j \in 1..Len(response.body) : response.body[j].key = regions.items[i]

C8_Witness ==
  /\ Succeeded
  /\ Len(response.body) = 2
  /\ \E j \in 1..2 :
       /\ response.body[j].key = Str("US-East")
       /\ ~response.body[j].val.avg_latency.null
  /\ \E j \in 1..2 :
       /\ response.body[j].key = Str("us")
       /\ response.body[j].val = NoData
  /\ \E i \in 1..Len(df.rows) : df.rows[i][ColumnIndex(df, "region")] = Str("Us-East")

Normalized == df # NoFrame

Source(key) == {i \in 1..Len(TELEMETRY_DF.columns) : Lower(TELEMETRY_DF.columns[i]) = key}

(* the alias that wins for a canonical name: the first of its priority list *)
(* that some source column carries                                          *)
Winner(aliases) ==
  IF \E k \in 1..Len(aliases) : Source(aliases[k]) # {}
  THEN {aliases[CHOOSE k \in 1..Len(aliases) :
                  /\ Source(aliases[k]) # {}
                  /\ \A m \in 1..(k - 1) : Source(aliases[m]) = {}]}
  ELSE {}

ResolvedOnce(target, aliases) ==
  LET src == TELEMETRY_DF.columns
      dst == df.columns
      changed == {i \in 1..Len(src) : dst[i] = target /\ Lower(src[i]) \in Winner(aliases)
                                       /\ \A m \in Source(Lower(src[i])) : m <= i}
  IN /\ Winner(aliases) # {} => Cardinality(changed) = 1
     /\ \A i \in 1..Len(src) : i \notin changed => dst[i] = src[i]
                                  \/ Lower(src[i]) \notin {aliases[k] : k \in 1..Len(aliases)}

(* C9: each canonical column is taken from one source column, the first of *)
(* latency_ms, latency, ping (uptime, up; region) present under            *)
(* case-insensitive comparison; every other column keeps its name; and a   *)
(* table without region or latency is left to the handler's own check      *)
C9_AliasPriority ==
  /\ Normalized =>
       /\ Len(df.columns) = Len(TELEMETRY_DF.columns)
       /\ df.rows = TELEMETRY_DF.rows
       /\ ResolvedOnce("region", <<"region">>)
       /\ ResolvedOnce("latency_ms", <<"latency_ms", "latency", "ping">>)
       /\ ResolvedOnce("uptime", <<"uptime", "up">>)
       /\ \A i \in 1..Len(df.columns) :
            df.columns[i] # TELEMETRY_DF.columns[i] =>
              /\ df.columns[i] \in {"region", "latency_ms", "uptime"}
              /\ \A m \in 1..Len(df.columns) :
                   (m # i /\ df.columns[m] = df.columns[i]) => df.columns[m] = TELEMETRY_DF.columns[m]
       /\ \A i \in 1..Len(df.columns) :
            Lower(TELEMETRY_DF.columns[i]) \notin {"region", "latency_ms", "latency", "ping", "uptime", "up"}
              => df.columns[i] = TELEMETRY_DF.columns[i]
       /\ (Source("region") = {} \/ Winner(<<"latency_ms", "latency", "ping">>) = {})
            => (Done /\ ErrorKind(response) = "SchemaMismatch")

C9_Witness ==
  /\ Normalized
  /\ \E i, k \in 1..Len(df.columns) :
       /\ TELEMETRY_DF.columns[i] = "latency" /\ df.columns[i] = "latency_ms"
       /\ TELEMETRY_DF.columns[k] = "ping" /\ df.columns[k] = "ping"

(* C10: no step changes the loaded table, and a call that repeats the      *)
(* request of an earlier call ends with the response that call ended with  *)
C10_PureRead ==
  [][/\ TELEMETRY_DF' = TELEMETRY_DF
     /\ (pc' = "done" /\ memo.set /\ memo.request = request')
          => response' = memo.response]_vars

C10_Witness ==
  /\ Succeeded
  /\ memo.set /\ memo.later
  /\ memo.request = request
  /\ Len(response.body) = 2
  /\ TELEMETRY_DF.columns # df.columns

====
